---- MODULE Spec2Model ----
(***************************************************************************)
(* Medical Booking API (src/main.py, src/schemas.py).                      *)
(*                                                                         *)
(* The service is a set of request handlers over a document store with     *)
(* four collections.  A handler is modelled as an operator from the store  *)
(* and the request to a response and the store it leaves behind; an action *)
(* applies one handler.  Spec runs the handlers one request at a time;     *)
(* SpecConc runs create_appointment as separate store steps of concurrent  *)
(* requests.                                                               *)
(*                                                                         *)
(* Typing.  Strings the code tests for emptiness or parses (identifiers,   *)
(* specialty, date) are sequences of one-character strings, "" is <<>>.    *)
(* Other strings are TLA+ strings.  Optional[T] is <<>> for None and <<v>> *)
(* for a value v.  A dict is a function from keys to values.  An ObjectId  *)
(* is the number its 24 hexadecimal digits denote.                         *)
(***************************************************************************)
EXTENDS Integers, Sequences, FiniteSets, TLC

VARIABLES db, nextId, nreq, last, inflight

vars == <<db, nextId, nreq, last, inflight>>

\* Bounds of the model.
MaxReq == 2
NumWorkers == 2

Workers == 1..NumWorkers

----------------------------------------------------------------------------
\* bson.ObjectId, as far as ensure_object_id uses it.

OidLen == 24

HexLower == <<"0","1","2","3","4","5","6","7","8","9","a","b","c","d","e","f">>
HexUpper == <<"0","1","2","3","4","5","6","7","8","9","A","B","C","D","E","F">>

IsHexChar(c) == \E i \in 1..16 : c = HexLower[i] \/ c = HexUpper[i]

HexVal(c) == (CHOOSE i \in 1..16 : c = HexLower[i] \/ c = HexUpper[i]) - 1

RECURSIVE FromHex(_)
FromHex(s) ==
  IF s = <<>> THEN 0
  ELSE 16 * FromHex(SubSeq(s, 1, Len(s) - 1)) + HexVal(s[Len(s)])

RECURSIVE ToHex(_, _)
ToHex(n, width) ==
  IF width = 0 THEN <<>>
  ELSE Append(ToHex(n \div 16, width - 1), HexLower[(n % 16) + 1])

\* ObjectId(id_str) accepts exactly the strings of 24 hexadecimal digits.
ObjectIdValid(id_str) ==
  Len(id_str) = OidLen /\ \A i \in 1..Len(id_str) : IsHexChar(id_str[i])

ObjectId(id_str) == FromHex(id_str)

\* str(ObjectId): 24 lower-case hexadecimal digits.
str(oid) == ToHex(oid, OidLen)

\* ok: the ObjectId is returned; ~ok: HTTPException(400, "Invalid ID format").
ensure_object_id(id_str) ==
  IF ObjectIdValid(id_str)
    THEN [ok |-> TRUE, oid |-> ObjectId(id_str)]
    ELSE [ok |-> FALSE, status |-> 400, detail |-> "Invalid ID format"]

----------------------------------------------------------------------------
\* Optional values and dicts.

None == <<>>
Some(v) == <<v>>

\* Python truthiness of an Optional[str]: neither None nor "".
Truthy(opt) == opt # None /\ opt[1] # <<>>

Without(d, k) == [x \in DOMAIN d \ {k} |-> d[x]]

\* A pydantic model built from a request body: declared fields only, the
\* body's value where given, the declared default otherwise.
ModelDump(body, required, defaults) ==
  [k \in required \cup DOMAIN defaults |->
     IF k \in DOMAIN body THEN body[k] ELSE defaults[k]]

----------------------------------------------------------------------------
\* The store collaborator (module database).

Collections == {"hospital", "clinic", "doctor", "appointment"}

EmptyDb == [c \in Collections |-> <<>>]

\* insert one document, return the identifier the store assigned, as a string
create_document(d, nid, coll, data) ==
  [db |-> [d EXCEPT ![coll] = Append(@, ("_id" :> nid) @@ data)],
   nextId |-> nid + 1,
   id |-> str(nid)]

Matches(doc, filter) ==
  \A k \in DOMAIN filter : k \in DOMAIN doc /\ doc[k] = filter[k]

\* the documents of a collection that equal the filter on each of its keys
get_documents(d, coll, filter) ==
  SelectSeq(d[coll], LAMBDA doc : Matches(doc, filter))

----------------------------------------------------------------------------
\* Responses.  calls is the sequence of store calls the handler made.

Resp(status, body, d, nid, calls) ==
  [status |-> status, body |-> body, db |-> d, nextId |-> nid, calls |-> calls]

\* it["id"] = str(it.pop("_id")) for each item
with_public_id(items) ==
  [i \in 1..Len(items) |->
     ("id" :> str(items[i]["_id"])) @@ Without(items[i], "_id")]

----------------------------------------------------------------------------
\* Hospitals.

HospitalCreate(body) ==
  ModelDump(body, {"name", "city", "address"}, [phone |-> None])

list_hospitals(d, nid, req) ==
  LET items == get_documents(d, "hospital", <<>>)
  IN  Resp(200, with_public_id(items), d, nid, << <<"query", "hospital">> >>)

create_hospital(d, nid, body) ==
  LET payload == HospitalCreate(body)
      ins == create_document(d, nid, "hospital", payload)
  IN  Resp(201, [id |-> ins.id], ins.db, ins.nextId,
           << <<"insert", "hospital">> >>)

----------------------------------------------------------------------------
\* Clinics.

ClinicCreate(body) ==
  ModelDump(body, {"hospital_id", "name"}, [specialties |-> <<>>])

list_clinics(d, nid, req) ==
  LET filter_q == IF Truthy(req.hospital_id)
                    THEN [hospital_id |-> req.hospital_id[1]]
                    ELSE <<>>
      items == get_documents(d, "clinic", filter_q)
  IN  Resp(200, with_public_id(items), d, nid, << <<"query", "clinic">> >>)

\* create_clinic with an existence check of the referenced hospital
create_clinic_checked(d, nid, body) ==
  LET payload == ClinicCreate(body)
      chk == ensure_object_id(payload.hospital_id)
      found == get_documents(d, "hospital", [_id |-> chk.oid])
      ins == create_document(d, nid, "clinic", payload)
  IN  IF ~chk.ok
        THEN Resp(chk.status, chk.detail, d, nid, <<>>)
      ELSE IF found = <<>>
        THEN Resp(404, "Hospital not found", d, nid,
                  << <<"query", "hospital">> >>)
      ELSE Resp(201, [id |-> ins.id], ins.db, ins.nextId,
                << <<"query", "hospital">>, <<"insert", "clinic">> >>)

create_clinic(d, nid, body) ==
  LET payload == ClinicCreate(body)
      chk == ensure_object_id(payload.hospital_id)
      ins == create_document(d, nid, "clinic", payload)
  IN  IF ~chk.ok
        THEN Resp(chk.status, chk.detail, d, nid, <<>>)
        ELSE Resp(201, [id |-> ins.id], ins.db, ins.nextId,
                  << <<"insert", "clinic">> >>)

----------------------------------------------------------------------------
\* Doctors.

\* The default of schemas.Doctor.time_slots.
DoctorSchemaTimeSlots ==
  <<"09:00", "09:30", "10:00", "10:30", "11:00", "11:30",
    "12:00", "12:30", "13:00", "13:30", "14:00", "14:30">>

DoctorCreate(body) ==
  ModelDump(body, {"clinic_id", "name", "specialty"},
            [days_available |-> <<>>, time_slots |-> <<>>])

list_doctors(d, nid, req) ==
  LET q1 == IF Truthy(req.clinic_id)
              THEN [clinic_id |-> req.clinic_id[1]] ELSE <<>>
      q  == IF Truthy(req.specialty)
              THEN [specialty |-> req.specialty[1]] @@ q1 ELSE q1
      items == get_documents(d, "doctor", q)
  IN  Resp(200, with_public_id(items), d, nid, << <<"query", "doctor">> >>)

create_doctor(d, nid, body) ==
  LET payload == DoctorCreate(body)
      chk == ensure_object_id(payload.clinic_id)
      ins == create_document(d, nid, "doctor", payload)
  IN  IF ~chk.ok
        THEN Resp(chk.status, chk.detail, d, nid, <<>>)
        ELSE Resp(201, [id |-> ins.id], ins.db, ins.nextId,
                  << <<"insert", "doctor">> >>)

----------------------------------------------------------------------------
\* Appointments.

AppointmentCreate(body) ==
  ModelDump(body,
            {"patient_name", "patient_phone", "doctor_id", "date", "time_slot"},
            <<>>)

list_appointments(d, nid, req) ==
  LET q1 == IF Truthy(req.doctor_id)
              THEN [doctor_id |-> req.doctor_id[1]] ELSE <<>>
      q  == IF Truthy(req.date)
              THEN [date |-> req.date[1]] @@ q1 ELSE q1
      items == get_documents(d, "appointment", q)
  IN  Resp(200, with_public_id(items), d, nid, << <<"query", "appointment">> >>)

\* the filter of the duplicate check
slot_filter(payload) ==
  [doctor_id |-> payload.doctor_id,
   date |-> payload.date,
   time_slot |-> payload.time_slot]

\* {**payload.model_dump(), "status": "pending"}
appointment_document(payload) == [status |-> "pending"] @@ payload

\* create_appointment without the duplicate check
create_appointment_unchecked(d, nid, body) ==
  LET payload == AppointmentCreate(body)
      chk == ensure_object_id(payload.doctor_id)
      ins == create_document(d, nid, "appointment",
                             appointment_document(payload))
  IN  IF ~chk.ok
        THEN Resp(chk.status, chk.detail, d, nid, <<>>)
        ELSE Resp(201, [id |-> ins.id, status |-> "pending"], ins.db, ins.nextId,
                  << <<"insert", "appointment">> >>)

\* create_appointment that inserts first and looks for a duplicate afterwards
create_appointment_insert_first(d, nid, body) ==
  LET payload == AppointmentCreate(body)
      chk == ensure_object_id(payload.doctor_id)
      ins == create_document(d, nid, "appointment",
                             appointment_document(payload))
      existing == get_documents(ins.db, "appointment", slot_filter(payload))
  IN  IF ~chk.ok
        THEN Resp(chk.status, chk.detail, d, nid, <<>>)
      ELSE IF Len(existing) > 1
        THEN Resp(409, "This slot is already booked", ins.db, ins.nextId,
                  << <<"insert", "appointment">>, <<"query", "appointment">> >>)
      ELSE Resp(201, [id |-> ins.id, status |-> "pending"], ins.db, ins.nextId,
                << <<"insert", "appointment">>, <<"query", "appointment">> >>)

\* create_appointment that keeps the status of the request body
create_appointment_caller_status(d, nid, body) ==
  LET payload == AppointmentCreate(body)
      chk == ensure_object_id(payload.doctor_id)
      existing == get_documents(d, "appointment", slot_filter(payload))
      st == IF "status" \in DOMAIN body THEN body.status ELSE "pending"
      ins == create_document(d, nid, "appointment", [status |-> st] @@ payload)
  IN  IF ~chk.ok
        THEN Resp(chk.status, chk.detail, d, nid, <<>>)
      ELSE IF existing # <<>>
        THEN Resp(409, "This slot is already booked", d, nid,
                  << <<"query", "appointment">> >>)
      ELSE Resp(201, [id |-> ins.id, status |-> st], ins.db, ins.nextId,
                << <<"query", "appointment">>, <<"insert", "appointment">> >>)

\* create_appointment that queries the slot before validating doctor_id
create_appointment_query_first(d, nid, body) ==
  LET payload == AppointmentCreate(body)
      existing == get_documents(d, "appointment", slot_filter(payload))
      chk == ensure_object_id(payload.doctor_id)
      ins == create_document(d, nid, "appointment",
                             appointment_document(payload))
  IN  IF existing # <<>>
        THEN Resp(409, "This slot is already booked", d, nid,
                  << <<"query", "appointment">> >>)
      ELSE IF ~chk.ok
        THEN Resp(chk.status, chk.detail, d, nid,
                  << <<"query", "appointment">> >>)
      ELSE Resp(201, [id |-> ins.id, status |-> "pending"], ins.db, ins.nextId,
                << <<"query", "appointment">>, <<"insert", "appointment">> >>)

\* create_appointment that keys the slot on the parsed identifier
create_appointment_normalized(d, nid, body) ==
  LET parsed == AppointmentCreate(body)
      chk == ensure_object_id(parsed.doctor_id)
      payload == [parsed EXCEPT !.doctor_id = str(chk.oid)]
      existing == get_documents(d, "appointment", slot_filter(payload))
      ins == create_document(d, nid, "appointment",
                             appointment_document(payload))
  IN  IF ~chk.ok
        THEN Resp(chk.status, chk.detail, d, nid, <<>>)
      ELSE IF existing # <<>>
        THEN Resp(409, "This slot is already booked", d, nid,
                  << <<"query", "appointment">> >>)
      ELSE Resp(201, [id |-> ins.id, status |-> "pending"], ins.db, ins.nextId,
                << <<"query", "appointment">>, <<"insert", "appointment">> >>)

create_appointment(d, nid, body) ==
  LET payload == AppointmentCreate(body)
      chk == ensure_object_id(payload.doctor_id)
      existing == get_documents(d, "appointment", slot_filter(payload))
      ins == create_document(d, nid, "appointment",
                             appointment_document(payload))
  IN  IF ~chk.ok
        THEN Resp(chk.status, chk.detail, d, nid, <<>>)
      ELSE IF existing # <<>>
        THEN Resp(409, "This slot is already booked", d, nid,
                  << <<"query", "appointment">> >>)
      ELSE Resp(201, [id |-> ins.id, status |-> "pending"], ins.db, ins.nextId,
                << <<"query", "appointment">>, <<"insert", "appointment">> >>)

----------------------------------------------------------------------------
\* Development seed.  The sample names are transliterated to ASCII.

demo_hospitals ==
  << [name |-> "Al-Shifa Hospital", city |-> "Riyadh",
      address |-> "Olaya, street 10", phone |-> Some("+966500000001")],
     [name |-> "Al-Nada Hospital", city |-> "Jeddah",
      address |-> "Rawdah, King road", phone |-> Some("+966500000002")],
     [name |-> "Al-Rahma Medical Center", city |-> "Dammam",
      address |-> "Mazrouiyah, Prince street", phone |-> Some("+966500000003")] >>

demo_clinics(h_ids) ==
  << [hospital_id |-> h_ids[1], name |-> "Internal medicine",
      specialties |-> <<"internal", "diabetes">>],
     [hospital_id |-> h_ids[1], name |-> "Cardiology", specialties |-> <<"heart">>],
     [hospital_id |-> h_ids[2], name |-> "Pediatrics",
      specialties |-> <<"children", "nutrition">>],
     [hospital_id |-> h_ids[2], name |-> "Orthopedics", specialties |-> <<"bones">>],
     [hospital_id |-> h_ids[3], name |-> "Dental", specialties |-> <<"teeth">>] >>

Internal == <<"i","n","t">>
Diabetes == <<"d","i","a">>
Heart == <<"h","e","a","r","t">>
Children == <<"c","h","i">>
Bones == <<"b","o","n">>
Teeth == <<"t","e","e">>

demo_doctors(clinic_ids) ==
  << [clinic_id |-> clinic_ids[1], name |-> "Dr. Ahmad Al-Salem",
      specialty |-> Internal, days_available |-> <<"Sat", "Mon", "Wed">>,
      time_slots |-> <<"09:00", "09:30", "10:00", "10:30", "11:00">>],
     [clinic_id |-> clinic_ids[1], name |-> "Dr. Mona Ali",
      specialty |-> Diabetes, days_available |-> <<"Sun", "Tue">>,
      time_slots |-> <<"12:00", "12:30", "13:00", "13:30", "14:00">>],
     [clinic_id |-> clinic_ids[2], name |-> "Dr. Khaled Murad",
      specialty |-> Heart, days_available |-> <<"Mon", "Thu">>,
      time_slots |-> <<"09:00", "09:30", "10:00">>],
     [clinic_id |-> clinic_ids[3], name |-> "Dr. Sara Youssef",
      specialty |-> Children, days_available |-> <<"Sat", "Sun", "Mon">>,
      time_slots |-> <<"11:00", "11:30", "12:00">>],
     [clinic_id |-> clinic_ids[4], name |-> "Dr. Fahd Al-Subaie",
      specialty |-> Bones, days_available |-> <<"Tue", "Wed">>,
      time_slots |-> <<"09:00", "09:30", "10:00", "10:30">>],
     [clinic_id |-> clinic_ids[5], name |-> "Dr. Layla Al-Qahtani",
      specialty |-> Teeth, days_available |-> <<"Sat", "Thu">>,
      time_slots |-> <<"09:00", "09:30", "10:00", "10:30", "11:00", "11:30">>] >>

\* for x in docs: create_document(coll, x), collecting the identifiers
RECURSIVE insert_all(_, _, _, _)
insert_all(d, nid, coll, docs) ==
  IF docs = <<>>
    THEN [db |-> d, nextId |-> nid, ids |-> <<>>]
    ELSE LET ins  == create_document(d, nid, coll, Head(docs))
             rest == insert_all(ins.db, ins.nextId, coll, Tail(docs))
         IN  [db |-> rest.db, nextId |-> rest.nextId,
              ids |-> <<ins.id>> \o rest.ids]

SeedResponse(h, c, dr) == [hospitals |-> h, clinics |-> c, doctors |-> dr]

\* _seed_dev_data without the "only if there are no hospitals" guard
seed_dev_data_unguarded(d, nid, req) ==
  LET hs == insert_all(d, nid, "hospital", demo_hospitals)
      cs == insert_all(hs.db, hs.nextId, "clinic", demo_clinics(hs.ids))
      ds == insert_all(cs.db, cs.nextId, "doctor", demo_doctors(cs.ids))
  IN  Resp(200,
           SeedResponse(Len(hs.ids), Len(cs.ids), Len(demo_doctors(cs.ids))),
           ds.db, ds.nextId,
           << <<"query", "hospital">> >>
             \o [i \in 1..Len(hs.ids) |-> <<"insert", "hospital">>]
             \o [i \in 1..Len(cs.ids) |-> <<"insert", "clinic">>]
             \o [i \in 1..Len(ds.ids) |-> <<"insert", "doctor">>])

seed_dev_data(d, nid, req) ==
  LET existing_hospitals == get_documents(d, "hospital", <<>>)
      hs == insert_all(d, nid, "hospital", demo_hospitals)
      cs == insert_all(hs.db, hs.nextId, "clinic", demo_clinics(hs.ids))
      ds == insert_all(cs.db, cs.nextId, "doctor", demo_doctors(cs.ids))
  IN  IF existing_hospitals # <<>>
        THEN Resp(200, SeedResponse(0, 0, 0), d, nid,
                  << <<"query", "hospital">> >>)
        ELSE Resp(200,
                  SeedResponse(Len(hs.ids), Len(cs.ids), Len(demo_doctors(cs.ids))),
                  ds.db, ds.nextId,
                  << <<"query", "hospital">> >>
                    \o [i \in 1..Len(hs.ids) |-> <<"insert", "hospital">>]
                    \o [i \in 1..Len(cs.ids) |-> <<"insert", "clinic">>]
                    \o [i \in 1..Len(ds.ids) |-> <<"insert", "doctor">>])

----------------------------------------------------------------------------
\* Request inputs.

\* the first identifier the store assigns, in lower and in upper case
LowerId == ToHex(10, OidLen)
UpperId == [i \in 1..OidLen |-> IF i = OidLen THEN "A" ELSE "0"]
\* malformed: one digit short, not hexadecimal, empty
ShortId == SubSeq(LowerId, 1, OidLen - 1)
NonHexId == [i \in 1..OidLen |-> "g"]
EmptyId == <<>>

Cardio == <<"c","a","r","d","i","o">>
Date1 == <<"2","0","2","4","-","0","1","-","1","0">>
Date2 == <<"2","0","2","4","-","0","1","-","1","1">>

HospitalBodies ==
  { [name |-> "H", city |-> "C", address |-> "A"] }

ClinicBodies ==
  { [hospital_id |-> h, name |-> "K"] : h \in {LowerId, NonHexId, EmptyId} }

DoctorBodies ==
  { [clinic_id |-> c, name |-> "D", specialty |-> s] :
      c \in {LowerId, ShortId}, s \in {<<>>, Cardio} }
  \cup { [clinic_id |-> LowerId, name |-> "D", specialty |-> Cardio,
          time_slots |-> <<"10:00">>] }

AppointmentBodies ==
  LET base == { [patient_name |-> "P", patient_phone |-> "1", doctor_id |-> i,
                 date |-> Date1, time_slot |-> "09:00"] :
                  i \in {LowerId, UpperId, ShortId} }
               \cup { [patient_name |-> "P", patient_phone |-> "1",
                       doctor_id |-> LowerId, date |-> Date2,
                       time_slot |-> "09:00"] }
  IN  base \cup { [status |-> "confirmed"] @@ b : b \in base }

ClinicQueries == { [hospital_id |-> h] : h \in {None, Some(<<>>), Some(LowerId)} }

DoctorQueries ==
  { [clinic_id |-> c, specialty |-> None] : c \in {None, Some(<<>>), Some(LowerId)} }
  \cup { [clinic_id |-> c, specialty |-> Some(Cardio)] : c \in {None, Some(LowerId)} }
  \cup { [clinic_id |-> None, specialty |-> Some(<<>>)] }

AppointmentQueries ==
  { [doctor_id |-> i, date |-> None] : i \in {None, Some(<<>>), Some(LowerId)} }
  \cup { [doctor_id |-> i, date |-> Some(Date1)] : i \in {None, Some(LowerId)} }

----------------------------------------------------------------------------
\* One request at a time.

NoRequest == [op |-> "none", req |-> <<>>, status |-> 0, body |-> <<>>, calls |-> <<>>]

IdleWorker == [pc |-> "idle", payload |-> <<>>, status |-> 0]

Init ==
  /\ db = EmptyDb
  /\ nextId = 10
  /\ nreq = 0
  /\ last = NoRequest
  /\ inflight = [w \in Workers |-> IdleWorker]

\* the handler's response and its effect on the store; nreq bounds the
\* number of inserting requests
Handle(op, req, resp) == \E r \in {resp} :
  /\ r.db # db => nreq < MaxReq
  /\ db' = r.db
  /\ nextId' = r.nextId
  /\ nreq' = IF r.db # db THEN nreq + 1 ELSE nreq
  /\ last' = [op |-> op, req |-> req, status |-> r.status, body |-> r.body,
              calls |-> r.calls]
  /\ UNCHANGED inflight

ListHospitals == Handle("list_hospitals", <<>>, list_hospitals(db, nextId, <<>>))

CreateHospital ==
  \E body \in HospitalBodies :
    Handle("create_hospital", body, create_hospital(db, nextId, body))

ListClinics ==
  \E req \in ClinicQueries :
    Handle("list_clinics", req, list_clinics(db, nextId, req))

CreateClinic ==
  \E body \in ClinicBodies :
    Handle("create_clinic", body, create_clinic(db, nextId, body))

ListDoctors ==
  \E req \in DoctorQueries :
    Handle("list_doctors", req, list_doctors(db, nextId, req))

CreateDoctor ==
  \E body \in DoctorBodies :
    Handle("create_doctor", body, create_doctor(db, nextId, body))

ListAppointments ==
  \E req \in AppointmentQueries :
    Handle("list_appointments", req, list_appointments(db, nextId, req))

CreateAppointment ==
  \E body \in AppointmentBodies :
    Handle("create_appointment", body, create_appointment(db, nextId, body))

SeedDevData ==
  \E r \in {seed_dev_data(db, nextId, <<>>)} :
      /\ db' = r.db
      /\ nextId' = r.nextId
      /\ last' = [op |-> "seed_dev_data", req |-> <<>>, status |-> r.status,
                  body |-> r.body, calls |-> r.calls]
      /\ UNCHANGED <<nreq, inflight>>

Next ==
  \/ ListHospitals
  \/ CreateHospital
  \/ ListClinics
  \/ CreateClinic
  \/ ListDoctors
  \/ CreateDoctor
  \/ ListAppointments
  \/ CreateAppointment
  \/ SeedDevData

Spec == Init /\ [][Next]_vars

----------------------------------------------------------------------------
\* Concurrent create_appointment requests: each request is a worker that
\* validates, queries the store and inserts in three separate steps.

ConcBodies ==
  { [patient_name |-> "P", patient_phone |-> "1", doctor_id |-> i,
     date |-> dt, time_slot |-> "09:00"] :
      i \in {LowerId, UpperId, ShortId}, dt \in {Date1, Date2} }

ReceiveStep(w) ==
  /\ inflight[w].pc = "idle"
  /\ \E body \in ConcBodies :
       LET payload == AppointmentCreate(body)
           chk == ensure_object_id(payload.doctor_id)
       IN  inflight' = [inflight EXCEPT ![w] =
             IF chk.ok
               THEN [pc |-> "query", payload |-> payload, status |-> 0]
               ELSE [pc |-> "done", payload |-> payload, status |-> chk.status]]
  /\ UNCHANGED <<db, nextId, nreq, last>>

QueryStep(w) ==
  /\ inflight[w].pc = "query"
  /\ LET existing == get_documents(db, "appointment",
                                   slot_filter(inflight[w].payload))
     IN  inflight' = [inflight EXCEPT ![w] =
           IF existing # <<>>
             THEN [@ EXCEPT !.pc = "done", !.status = 409]
             ELSE [@ EXCEPT !.pc = "insert"]]
  /\ UNCHANGED <<db, nextId, nreq, last>>

\* an insert step that repeats the duplicate check atomically with the insert
InsertStepAtomic(w) ==
  /\ inflight[w].pc = "insert"
  /\ LET existing == get_documents(db, "appointment",
                                   slot_filter(inflight[w].payload))
         ins == create_document(db, nextId, "appointment",
                                appointment_document(inflight[w].payload))
     IN  IF existing # <<>>
           THEN /\ UNCHANGED <<db, nextId>>
                /\ inflight' = [inflight EXCEPT ![w] =
                                  [@ EXCEPT !.pc = "done", !.status = 409]]
           ELSE /\ db' = ins.db
                /\ nextId' = ins.nextId
                /\ inflight' = [inflight EXCEPT ![w] =
                                  [@ EXCEPT !.pc = "done", !.status = 201]]
  /\ UNCHANGED <<nreq, last>>

InsertStep(w) ==
  /\ inflight[w].pc = "insert"
  /\ LET ins == create_document(db, nextId, "appointment",
                                appointment_document(inflight[w].payload))
     IN  /\ db' = ins.db
         /\ nextId' = ins.nextId
  /\ inflight' = [inflight EXCEPT ![w] = [@ EXCEPT !.pc = "done", !.status = 201]]
  /\ UNCHANGED <<nreq, last>>

NextConc == \E w \in Workers : ReceiveStep(w) \/ QueryStep(w) \/ InsertStep(w)

SpecConc == Init /\ [][NextConc]_vars

----------------------------------------------------------------------------
\* Properties.  A step of Spec is the request recorded in last'; db is the
\* store before the request and db' the store after it.

Triple(x) == <<x.doctor_id, x.date, x.time_slot>>

Appointments(d) == {d.appointment[i] : i \in 1..Len(d.appointment)}

Stored(d, req) == \E a \in Appointments(d) : Triple(a) = Triple(req)

Inserted(calls) == \E i \in 1..Len(calls) : calls[i][1] = "insert"

\* C1: with requests handled one at a time, no two distinct appointment
\* records have the same (doctor_id, date, time_slot).
SlotExclusive ==
  \A i, j \in 1..Len(db.appointment) :
    i # j => Triple(db.appointment[i]) # Triple(db.appointment[j])

SlotExclusiveWitness ==
  /\ Len(db.appointment) >= 2
  /\ last.op = "create_appointment"
  /\ last.status = 409

\* C2: a create_appointment whose triple is already stored fails with 409,
\* inserts nothing and leaves every collection as it was.
ConflictLeavesStoreUnchanged ==
  [][(last'.op = "create_appointment" /\ Stored(db, last'.req))
       => /\ last'.status = 409
          /\ ~Inserted(last'.calls)
          /\ db' = db
          /\ Len(db'.appointment) = Len(db.appointment)]_vars

ConflictWitness ==
  /\ last.op = "create_appointment"
  /\ last.status = 409
  /\ Stored(db, last.req)
  /\ "status" \in DOMAIN last.req

\* C3 as stated: every create_appointment whose triple is not yet stored
\* succeeds with status "pending" and stores a "pending" record.
StatusPendingWheneverFree ==
  [][(last'.op = "create_appointment" /\ ~Stored(db, last'.req))
       => /\ last'.status = 201
          /\ last'.body.status = "pending"
          /\ Len(db'.appointment) = Len(db.appointment) + 1
          /\ db'.appointment[Len(db'.appointment)].status = "pending"]_vars

\* C3 amended: every create_appointment whose doctor_id is well-formed and
\* whose triple is not yet stored succeeds, returns status "pending" and
\* stores a "pending" record, whatever status the body carries; every
\* appointment record in every reachable state has status "pending".
StatusAlwaysPending ==
  /\ [](\A a \in Appointments(db) : a.status = "pending")
  /\ [][(/\ last'.op = "create_appointment"
         /\ ObjectIdValid(last'.req.doctor_id)
         /\ ~Stored(db, last'.req))
          => /\ last'.status = 201
             /\ last'.body.status = "pending"
             /\ Len(db'.appointment) = Len(db.appointment) + 1
             /\ db'.appointment[Len(db'.appointment)].status = "pending"
             /\ Triple(db'.appointment[Len(db'.appointment)]) = Triple(last'.req)]_vars

StatusPendingWitness ==
  /\ last.op = "create_appointment"
  /\ "status" \in DOMAIN last.req
  /\ last.req.status = "confirmed"
  /\ last.status = 201
  /\ db.appointment[Len(db.appointment)].status = "pending"

ReferenceOf(l) ==
  CASE l.op = "create_clinic" -> l.req.hospital_id
    [] l.op = "create_doctor" -> l.req.clinic_id
    [] l.op = "create_appointment" -> l.req.doctor_id

CollectionOf(l) ==
  CASE l.op = "create_clinic" -> "clinic"
    [] l.op = "create_doctor" -> "doctor"
    [] l.op = "create_appointment" -> "appointment"

CreatesWithReference == {"create_clinic", "create_doctor", "create_appointment"}

\* C4: a create of a clinic, doctor or appointment whose reference is not a
\* well-formed identifier fails with 400 before any store call: no insert,
\* and for appointments no slot query.
MalformedReferenceFailsFirst ==
  [][(last'.op \in CreatesWithReference /\ ~ObjectIdValid(ReferenceOf(last')))
       => /\ last'.status = 400
          /\ last'.calls = <<>>
          /\ db' = db
          /\ nextId' = nextId]_vars

MalformedReferenceWitness ==
  /\ last.op = "create_appointment"
  /\ ~ObjectIdValid(last.req.doctor_id)
  /\ last.status = 400
  /\ db.appointment # <<>>

\* the documents of a collection whose field equals every supplied filter
ExactlyFiltered(d, coll, req) ==
  SelectSeq(d[coll],
            LAMBDA doc : \A k \in DOMAIN req : req[k] # None => doc[k] = req[k][1])

ListCollection(l) ==
  CASE l.op = "list_clinics" -> "clinic"
    [] l.op = "list_doctors" -> "doctor"
    [] l.op = "list_appointments" -> "appointment"

\* C5: a list operation returns exactly the documents whose field equals
\* each supplied filter value, the empty string included, and every document
\* when no filter is supplied.
ListFilteringExact ==
  [][last'.op \in {"list_clinics", "list_doctors", "list_appointments"}
       => last'.body =
            with_public_id(ExactlyFiltered(db, ListCollection(last'), last'.req))]_vars

\* C6: a doctor created with time_slots unspecified is stored with the
\* half-hour grid 09:00 .. 14:30.
DoctorTimeSlotsDefaultGrid ==
  [][(/\ last'.op = "create_doctor"
      /\ last'.status = 201
      /\ "time_slots" \notin DOMAIN last'.req)
       => db'.doctor[Len(db'.doctor)].time_slots = DoctorSchemaTimeSlots]_vars

\* C7: a create whose reference is a well-formed identifier succeeds and
\* inserts exactly one record into its own collection, whatever the
\* referenced collection holds (for appointments, if the triple is free).
NoReferentialCheck ==
  [][(/\ last'.op \in CreatesWithReference
      /\ ObjectIdValid(ReferenceOf(last'))
      /\ last'.op = "create_appointment" => ~Stored(db, last'.req))
       => /\ last'.status = 201
          /\ Len(db'[CollectionOf(last')]) = Len(db[CollectionOf(last')]) + 1
          /\ \A c \in Collections \ {CollectionOf(last')} : db'[c] = db[c]
          /\ SubSeq(db'[CollectionOf(last')], 1, Len(db[CollectionOf(last')]))
               = db[CollectionOf(last')]]_vars

DanglingReferenceWitness ==
  /\ last.op = "create_clinic"
  /\ last.status = 201
  /\ db.hospital # <<>>
  /\ \A i \in 1..Len(db.hospital) :
       str(db.hospital[i]["_id"]) # last.req.hospital_id

\* C8: with concurrent requests, a request that passed the slot query
\* inserts and succeeds at its insert step whatever was inserted since, so
\* two requests for one triple can both succeed.
CheckThenInsertNotAtomic ==
  [][\A w \in Workers :
       (inflight[w].pc = "insert" /\ inflight'[w].pc = "done")
         => /\ inflight'[w].status = 201
            /\ Len(db'.appointment) = Len(db.appointment) + 1
            /\ Triple(db'.appointment[Len(db'.appointment)])
                 = Triple(inflight[w].payload)]_vars

DoubleBookingWitness ==
  \E v, w \in Workers :
    /\ v # w
    /\ inflight[v].pc = "done" /\ inflight[v].status = 201
    /\ inflight[w].pc = "done" /\ inflight[w].status = 201
    /\ Triple(inflight[v].payload) = Triple(inflight[w].payload)
    /\ \E i, j \in 1..Len(db.appointment) :
         /\ i # j
         /\ Triple(db.appointment[i]) = Triple(inflight[v].payload)
         /\ Triple(db.appointment[j]) = Triple(inflight[v].payload)

\* C9: a seed call made while the hospital collection is non-empty inserts
\* nothing and returns (0, 0, 0); a seed call on an empty hospital collection
\* inserts 3 hospitals, 5 clinics and 6 doctors and returns (3, 5, 6).
SeedIsRepeatable ==
  [][last'.op = "seed_dev_data"
       => IF db.hospital # <<>>
            THEN /\ db' = db
                 /\ ~Inserted(last'.calls)
                 /\ last'.body = SeedResponse(0, 0, 0)
            ELSE /\ Len(db'.hospital) = 3
                 /\ Len(db'.clinic) = Len(db.clinic) + 5
                 /\ Len(db'.doctor) = Len(db.doctor) + 6
                 /\ db'.appointment = db.appointment
                 /\ last'.body = SeedResponse(3, 5, 6)]_vars

SeedRepeatedWitness ==
  /\ last.op = "seed_dev_data"
  /\ last.body = SeedResponse(0, 0, 0)
  /\ Len(db.hospital) = 3
  /\ Len(db.clinic) = 5
  /\ Len(db.doctor) = 6

\* a stored appointment for the same identifier, date and slot as the
\* request, under a different doctor_id string
SameSlotOtherSpelling(d, req) ==
  \E a \in Appointments(d) :
    /\ a.doctor_id # req.doctor_id
    /\ ObjectId(a.doctor_id) = ObjectId(req.doctor_id)
    /\ a.date = req.date
    /\ a.time_slot = req.time_slot

\* C10: the duplicate check keys on the doctor_id string as sent: a request
\* whose doctor_id is well-formed and denotes the identifier of a stored
\* appointment of the same date and slot, spelled differently, succeeds and
\* is stored under its own spelling.
RawDoctorIdKeyed ==
  [][(/\ last'.op = "create_appointment"
      /\ ObjectIdValid(last'.req.doctor_id)
      /\ SameSlotOtherSpelling(db, last'.req)
      /\ ~Stored(db, last'.req))
       => /\ last'.status = 201
          /\ db'.appointment =
               Append(db.appointment,
                      db'.appointment[Len(db'.appointment)])
          /\ db'.appointment[Len(db'.appointment)].doctor_id
               = last'.req.doctor_id]_vars

RawDoctorIdWitness ==
  /\ last.op = "create_appointment"
  /\ last.status = 201
  /\ \E i, j \in 1..Len(db.appointment) :
       /\ db.appointment[i].doctor_id # db.appointment[j].doctor_id
       /\ ObjectId(db.appointment[i].doctor_id)
            = ObjectId(db.appointment[j].doctor_id)
       /\ db.appointment[i].date = db.appointment[j].date
       /\ db.appointment[i].time_slot = db.appointment[j].time_slot

====
